---- MODULE Spec2Model ----
(***************************************************************************)
(* Model of the SunClover backend: the error normalizer (parseError), the  *)
(* response-envelope middleware of app.js, and the role handlers.          *)
(*                                                                         *)
(* JavaScript strings that are formatted, prefixed or searched are         *)
(* sequences of one-character strings, so startsWith / endsWith / contains *)
(* are computed on the characters.  Values that are only compared (error   *)
(* codes of the static table, names of pcs) are TLA+ strings.              *)
(***************************************************************************)
EXTENDS Integers, Sequences, FiniteSets, TLC

VARIABLES
    perr,       \* parseError: the `err` argument of the call
    pwith,      \* parseError: the `withCode` argument
    pres,       \* parseError: None before the call, Some(outcome) after it
    req,        \* envelope: the request scratch fields, the value passed to
                \* next, the position in the chain and the stages run so far
    writes,     \* envelope: the response writes attempted, in order
    log,        \* envelope: log.error entries written for the request
    raised,     \* envelope: exception that escaped the error stage, or Undef
    db,         \* role table: id -> role_name
    rq,         \* role routes: per request its inputs, position, req.answer,
                \* the response writes and the exception left unhandled
    hist,       \* history: the UPDATEs executed on the role table, in order
    cfg,        \* configuration.js: the `configuration` tree
    cfgUser,    \* configuration.js: the user settings that were merged
    cfgLoaded,  \* history: None, then Some(tree as _setConfiguration left it)
    cfgGot,     \* configuration.js: the last Configuration.get call and outcome
    routes,     \* app.js: server.urls.web_routers as read at startup
    app,        \* app.js: the middleware installed with app.use, in order
    mountPc     \* app.js: position in the startup sequence

vars == <<perr, pwith, pres, req, writes, log, raised, db, rq, hist,
          cfg, cfgUser, cfgLoaded, cfgGot, routes, app, mountPc>>

(***************************************************************************)
(* JavaScript values                                                       *)
(***************************************************************************)
Undef == "undefined"      \* an unset field whose values are TLA+ strings
None == <<>>              \* an unset field of any other type ...
Some(x) == <<x>>          \* ... and the same field set to x
NullCode == <<>>          \* errorCode of parseError when withCode is false (null)

envVars == <<req, writes, log, raised>>
roleVars == <<db, rq, hist>>
parseVars == <<perr, pwith, pres>>
confVars == <<cfg, cfgUser, cfgLoaded, cfgGot>>
mountVars == <<routes, app, mountPc>>
bootVars == <<confVars, mountVars>>

\* values of the variables a specification does not use
EnvIdle == req = None /\ writes = <<>> /\ log = <<>> /\ raised = None
RoleIdle == db = <<>> /\ rq = <<>> /\ hist = <<>>
ParseIdle == perr = None /\ pwith = FALSE /\ pres = None
ConfIdle == cfg = None /\ cfgUser = None /\ cfgLoaded = None /\ cfgGot = None
MountIdle == routes = <<>> /\ app = <<>> /\ mountPc = "idle"
BootIdle == ConfIdle /\ MountIdle

\* bounds of the model
MaxFrags == 2       \* fragments concatenated into one input string
MaxArr == 2         \* elements of an array passed to parseError
MaxRoles == 2       \* rows of the role table
MaxReqs == 2        \* requests in flight on the role routes
MaxRoutes == 2      \* entries of server.urls.web_routers

(***************************************************************************)
(* String helpers (lodash _.startsWith, _.endsWith, substring count)       *)
(***************************************************************************)
startsWith(s, p) == Len(s) >= Len(p) /\ SubSeq(s, 1, Len(p)) = p

endsWith(s, p) == Len(s) >= Len(p) /\ SubSeq(s, Len(s) - Len(p) + 1, Len(s)) = p

Occurrences(s, p) ==
    Cardinality({i \in 1..(Len(s) - Len(p) + 1) : SubSeq(s, i, i + Len(p) - 1) = p})

S_Error == <<"E", "r", "r", "o", "r">>
S_ErrorHash == S_Error \o <<" ", "#">>
S_ColonSp == <<":", " ">>
S_Dot == <<".">>
S_Q == <<"?">>

\* crypto.randomBytes(4).toString('hex'): 8 lowercase hex characters
HexLen == 8
HexPrefix == [i \in 1..(HexLen - 1) |-> "0"]
Codes == {HexPrefix \o <<"a">>, HexPrefix \o <<"b">>}

CodePrefix(code) == S_ErrorHash \o code \o S_ColonSp

(***************************************************************************)
(* Values handed to parseError.  A string is [t |-> "str", v |-> chars],   *)
(* an Error is [t |-> "err", name, message, code, status], a plain array   *)
(* is [t |-> "arr", v |-> elements], a bluebird AggregateError             *)
(* [t |-> "agg", v |-> elements], null/undefined [t |-> "nil"].            *)
(***************************************************************************)
Str(chars) == [t |-> "str", v |-> chars]

Err(name, message, code, status) ==
    [t |-> "err", name |-> name, message |-> message, code |-> code, status |-> status]

Arr(elems) == [t |-> "arr", v |-> elems]

Agg(elems) == [t |-> "agg", v |-> elems]

Nil == [t |-> "nil"]

N_Error == S_Error
N_FeatureNotEnabled ==
    <<"F", "e", "a", "t", "u", "r", "e", "N", "o", "t", "E", "n", "a", "b", "l", "e", "d">>
S_Sequelize == <<"S", "e", "q", "u", "e", "l", "i", "z", "e">>
N_SequelizeConnectionError ==
    S_Sequelize \o <<"C", "o", "n", "n", "e", "c", "t", "i", "o", "n">> \o S_Error

\* Error.prototype.toString: name, message, or "name: message"
ErrorToString(e) ==
    IF e.name = <<>> THEN e.message
    ELSE IF e.message = <<>> THEN e.name
    ELSE e.name \o S_ColonSp \o e.message

\* `err instanceof Error` (an AggregateError is an Error too)
isError(x) == x.t \in {"err", "agg"}

\* message.toString of part_000:290; reading a property of null/undefined throws
HasToString(message) == message.t # "nil"

toString(message) ==
    CASE message.t = "str" -> message.v
      [] message.t = "err" -> ErrorToString(message)
      [] OTHER -> <<>>

\* append fullstop (part_000:293)
Punctuate(m) == IF endsWith(m, S_Dot) \/ endsWith(m, S_Q) THEN m ELSE m \o S_Dot

\* with or without error code (part_000:295)
WithCode(errorCode, m) == IF errorCode = NullCode THEN m ELSE CodePrefix(errorCode) \o m

\* prepend error header (part_000:297)
WithErrorHeader(m) == IF startsWith(m, S_Error) THEN m ELSE S_Error \o S_ColonSp \o m

\* mutant: the error header is never prepended
parseMessageMissingPrefix(errorCode, message) ==
    WithCode(errorCode, Punctuate(toString(message)))

\* parseMessage: sqlError is optional-require'd and absent from the repository,
\* so the toString branch is the one taken.
parseMessage(errorCode, message) ==
    WithErrorHeader(WithCode(errorCode, Punctuate(toString(message))))

\* the log.error call of parseError (part_000:258-263): the entries it writes
parseErrorLog(errorCode, err) ==
    IF err.t = "agg"
    THEN <<[level |-> "error", key |-> errorCode, payload |-> "strings"]>>
    ELSE IF ~isError(err) \/ err.name # N_FeatureNotEnabled
         THEN <<[level |-> "error", key |-> errorCode, payload |-> "object"]>>
         ELSE <<>>

IsList(err) == err.t \in {"arr", "agg"}

\* message.toString() of a null element of an AggregateError throws while the
\* log entry is being built
LogThrows(err) == err.t = "agg" /\ \E i \in 1..Len(err.v) : ~HasToString(err.v[i])

FormatThrows(err) ==
    IF IsList(err) THEN \E i \in 1..Len(err.v) : ~HasToString(err.v[i])
    ELSE ~HasToString(err)

\* mutant: the list is built back to front
FormatAllReversed(errorCode, err) ==
    IF IsList(err)
    THEN [i \in 1..Len(err.v) |-> parseMessage(errorCode, err.v[Len(err.v) + 1 - i])]
    ELSE parseMessage(errorCode, err)

\* part_000:265-275: one string, or one string per element
FormatAll(errorCode, err) ==
    IF IsList(err) THEN [i \in 1..Len(err.v) |-> parseMessage(errorCode, err.v[i])]
    ELSE parseMessage(errorCode, err)

ParseResult(threw, errorCode, errors, entries) ==
    [threw |-> threw, code |-> errorCode, errors |-> errors, log |-> entries]

\* parseError once errorCode is drawn.  threw = TRUE: a TypeError escaped and
\* no value was returned.
parseErrorCoded(err, errorCode) ==
    IF LogThrows(err) THEN ParseResult(TRUE, errorCode, <<>>, <<>>)
    ELSE IF FormatThrows(err)
         THEN ParseResult(TRUE, errorCode, <<>>, parseErrorLog(errorCode, err))
         ELSE ParseResult(FALSE, errorCode, FormatAll(errorCode, err),
                          parseErrorLog(errorCode, err))

\* parseError(err, withCode) with `rnd` the value crypto.randomBytes yields
parseError(err, withCode, rnd) ==
    parseErrorCoded(err, IF withCode THEN rnd ELSE NullCode)

(***************************************************************************)
(* Inputs of the parseError specification                                  *)
(***************************************************************************)
CodeA == HexPrefix \o <<"a">>

Frags == {S_Error, CodePrefix(CodeA), <<"x">>, S_Dot, S_Q, <<" ">>}

RECURSIVE StringsUpTo(_)
StringsUpTo(n) ==
    IF n = 0 THEN {<<>>}
    ELSE LET prev == StringsUpTo(n - 1)
         IN  prev \cup {s \o f : s \in prev, f \in Frags}

ErrorInputs ==
    {Err(n, m, Undef, Undef) :
        n \in {N_Error, N_FeatureNotEnabled, N_SequelizeConnectionError},
        m \in {<<>>, <<"x">>, <<"x", "?">>, CodePrefix(CodeA) \o <<"x">>}}

ScalarInputs == {Str(s) : s \in StringsUpTo(MaxFrags)} \cup ErrorInputs \cup {Nil}

ArrElems ==
    {Str(<<>>), Str(<<"x", ".">>), Str(CodePrefix(CodeA) \o <<"x">>),
     Err(N_Error, <<"x">>, Undef, Undef), Err(N_FeatureNotEnabled, <<>>, Undef, Undef), Nil}

RECURSIVE SeqsUpTo(_, _)
SeqsUpTo(S, n) ==
    IF n = 0 THEN {<<>>}
    ELSE LET prev == SeqsUpTo(S, n - 1)
         IN  prev \cup {Append(q, e) : q \in prev, e \in S}

ParseInputs ==
    ScalarInputs \cup {Arr(q) : q \in SeqsUpTo(ArrElems, MaxArr)}
                 \cup {Agg(q) : q \in SeqsUpTo(ArrElems, MaxArr)}

(***************************************************************************)
(* Static error table (common/enum.js)                                     *)
(***************************************************************************)
S_Success == <<"S", "u", "c", "c", "e", "s", "s">>
S_InvalidSession ==
    <<"I", "n", "v", "a", "l", "i", "d", " ", "S", "e", "s", "s", "i", "o", "n">>
S_ConnectionDatabaseFail ==
    <<"C", "o", "n", "n", "e", "c", "t", "i", "o", "n", " ",
      "D", "a", "t", "a", "b", "a", "s", "e", " ", "F", "a", "i", "l">>

DataResponse ==
    << [errorCode |-> "0", message |-> S_Success],
       [errorCode |-> "1", message |-> S_InvalidSession] >>

\* Array.prototype.find: the first entry with that code, None when there is none
get_DataResponse(Code) ==
    LET hits == {i \in 1..Len(DataResponse) : DataResponse[i].errorCode = Code}
    IN  IF hits = {} THEN None
        ELSE Some(DataResponse[CHOOSE i \in hits : \A j \in hits : i <= j])

(***************************************************************************)
(* Response envelope (app.js).  A response write is                        *)
(*   [status, kind, body] with body = [errorCode, message, data];          *)
(* a body field that is Undef / None is undefined in JavaScript, that is,  *)
(* absent from the JSON sent.  Only the first write reaches the client; a  *)
(* later res.json finds the headers sent and throws.                       *)
(***************************************************************************)
\* a thrown plain object {message, code, status}
Obj(message, code, status) ==
    [t |-> "obj", name |-> <<>>, message |-> message, code |-> code, status |-> status]

Body(errorCode, message, data) ==
    [errorCode |-> errorCode, message |-> message, data |-> data]

JsonWrite(status, body) == [status |-> status, kind |-> "json", body |-> body]

\* res.sendStatus(404): status 404 with the text body 'Not Found'
SendStatus404 == [status |-> "404", kind |-> "text", body |-> Body(Undef, None, None)]

\* _.get(x, 'status', 200)
StatusOr200(x) == IF x.status = Undef THEN "200" ELSE x.status

\* what node throws from res.json once the headers are sent; older versions
\* of node set no code on it
S_HeadersSent == <<"h", "e", "a", "d", "e", "r", "s", " ", "s", "e", "n", "t">>
HeadersSentError(withCodeField) ==
    Err(N_Error, S_HeadersSent,
        IF withCodeField THEN "ERR_HTTP_HEADERS_SENT" ELSE Undef, Undef)

\* the log.error line of _simplifyError mapping the code to the URL
UrlLogged(r) ==
    IF r.threw THEN r
    ELSE [r EXCEPT !.log = @ \o <<[level |-> "error", key |-> r.code, payload |-> "url"]>>]

\* mutant: nothing is written to the log
_simplifyErrorUnlogged(error, rnd) ==
    [parseError(IF error.t = "obj" THEN Str(error.message) ELSE error, TRUE, rnd)
        EXCEPT !.log = <<>>]

\* _simplifyError(req, error): parseError of the message, then the log line
_simplifyError(error, rnd) ==
    UrlLogged(parseError(IF error.t = "obj" THEN Str(error.message) ELSE error, TRUE, rnd))

\* JavaScript truthiness of a string-valued field / of an optional string
Truthy(x) == x # Undef /\ x # ""

TruthyOpt(x) == x # None /\ x[1] # <<>>

EnvelopeOf(errorCode, error, data) ==
    [body |-> Body(errorCode, Some(error.errors), data), log |-> error.log]

Verbatim(errorCode, message, data) ==
    [body |-> Body(errorCode, message, data), log |-> <<>>]

\* mutant: the table message is never looked up
SoftErrorVerbatim(r, dr, rnd) == Verbatim(r.errorCode, r.message, r.answer)

\* mutant: a code of the table always gets the table message
SoftErrorIgnoresMessage(r, dr, rnd) ==
    IF dr = None
    THEN Verbatim(r.errorCode, r.message, r.answer)
    ELSE EnvelopeOf(r.errorCode, _simplifyError(Str(dr[1].message), rnd), r.answer)

\* app.js:99-106: explicit message or unknown code: verbatim; else normalized
SoftError(r, dr, rnd) ==
    IF TruthyOpt(r.message) \/ dr = None
    THEN Verbatim(r.errorCode, r.message, r.answer)
    ELSE EnvelopeOf(r.errorCode, _simplifyError(Str(dr[1].message), rnd), r.answer)

\* mutant: the success envelope is sent without the payload
SuccessAnswerWithoutData(r, rnd) ==
    IF Truthy(r.errorCode) THEN SoftError(r, get_DataResponse(r.errorCode), rnd)
    ELSE Verbatim("0", Some(S_Success), None)

\* the envelope body and log of the branch `if (req.errorCode) ... else ...`
SuccessAnswer(r, rnd) ==
    IF Truthy(r.errorCode) THEN SoftError(r, get_DataResponse(r.errorCode), rnd)
    ELSE Verbatim("0", Some(S_Success), r.answer)

\* app.js:95-97: the 404 guard
Guard404(r) == IF r.status = Undef /\ r.answer = None THEN <<SendStatus404>> ELSE <<>>

StageOut(ws, entries, thrown) == [writes |-> ws, log |-> entries, thrown |-> thrown]

\* the guard's write, then the envelope write, which throws after the guard wrote
SuccessWrites(first, status, a, hdr) ==
    StageOut(first \o <<JsonWrite(status, a.body)>>, a.log,
             IF first # <<>> THEN Some(HeadersSentError(hdr)) ELSE None)

\* mutant: the status override of the request is ignored
SuccessMiddlewareIgnoresStatus(r, rnd, hdr) ==
    SuccessWrites(Guard404(r), "200", SuccessAnswer(r, rnd), hdr)

\* _genericSuccessMiddleware(req, res, next): the writes it attempts, what it
\* logs, and the exception it ends with (the 404 guard does not return, so the
\* envelope write follows it and throws).  hdr: whether that exception has a code.
_genericSuccessMiddleware(r, rnd, hdr) ==
    SuccessWrites(Guard404(r), StatusOr200(r), SuccessAnswer(r, rnd), hdr)

\* _.includes(err.name, 'Sequelize')
NameIncludesSequelize(err) == Occurrences(err.name, S_Sequelize) > 0

ErrOut(typeError, status, errorCode, error) ==
    [typeError |-> typeError, status |-> status,
     body |-> Body(errorCode, Some(error.errors), None), log |-> error.log]

\* app.js:119-123; DataResponse.errorCode of undefined throws a TypeError
Classified(err, dr, rnd) ==
    IF dr = None
    THEN [typeError |-> TRUE, status |-> StatusOr200(err),
          body |-> Body(Undef, None, None), log |-> <<>>]
    ELSE ErrOut(FALSE, StatusOr200(err), dr[1].errorCode,
                _simplifyError(Str(dr[1].message), rnd))

\* mutant: the thrown value is normalized whatever its name
UnclassifiedRaw(err, rnd) == ErrOut(FALSE, "500", Undef, _simplifyError(err, rnd))

\* app.js:125-132
Unclassified(err, rnd) ==
    ErrOut(FALSE, "500", Undef,
           _simplifyError(IF NameIncludesSequelize(err)
                          THEN Str(S_ConnectionDatabaseFail) ELSE err, rnd))

\* the response and log of _genericErrorMiddleware up to its res.status().json()
ErrorResponse(err, rnd) ==
    IF Truthy(err.code) THEN Classified(err, get_DataResponse(err.code), rnd)
    ELSE Unclassified(err, rnd)

\* app.js:134: the write, which throws when a response was already sent
ErrorWrite(e, status, body, sent) ==
    IF e.typeError
    THEN [writes |-> <<>>, log |-> e.log, raised |-> Some("TypeError")]
    ELSE [writes |-> <<JsonWrite(status, body)>>, log |-> e.log,
          raised |-> IF sent THEN Some("HeadersSent") ELSE None]

WriteOf(e, sent) == ErrorWrite(e, e.status, e.body, sent)

WriteKeepingStatus(e, err, sent) == ErrorWrite(e, StatusOr200(err), e.body, sent)

WriteDroppingCode(e, sent) ==
    ErrorWrite(e, e.status, Body(Undef, e.body.message, None), sent)

\* mutant: the unclassified branch keeps the thrown value's status
ErrorMiddlewareKeepsStatus(err, sent, rnd) ==
    WriteKeepingStatus(ErrorResponse(err, rnd), err, sent)

\* mutant: the classified branch answers without the errorCode key
ErrorMiddlewareDropsCode(err, sent, rnd) ==
    WriteDroppingCode(ErrorResponse(err, rnd), sent)

\* _genericErrorMiddleware(err, req, res, next); sent: a response was written
\* before it ran.  raised: the exception that escapes it, if any.
_genericErrorMiddleware(err, sent, rnd) ==
    WriteOf(ErrorResponse(err, rnd), sent)

(***************************************************************************)
(* Specification of the envelope pipeline: one request whose handler sets  *)
(* any combination of scratch fields and calls next() or next(err)         *)
(***************************************************************************)
Answers == {None, Some("payload")}
Statuses == {Undef, "201"}
ErrorCodes == {Undef, "1", "001001"}
Messages == {None, Some(<<"m">>)}

ThrownValues ==
    {Err(n, m, c, st) :
        n \in {N_Error, N_SequelizeConnectionError, N_FeatureNotEnabled},
        m \in {<<>>, <<"x">>}, c \in {Undef, "1", "001001"}, st \in {Undef, "403"}}
    \cup {Obj(m, c, st) :
        m \in {<<"x">>}, c \in {Undef, "1", "001001"}, st \in {Undef, "403"}}

NewReq ==
    [answer |-> None, status |-> Undef, errorCode |-> Undef, message |-> None,
     pc |-> "handler", err |-> None, trace |-> <<>>]

InitEnv ==
    /\ req = NewReq
    /\ writes = <<>>
    /\ log = <<>>
    /\ raised = None
    /\ ParseIdle
    /\ RoleIdle
    /\ BootIdle

\* the route handler sets scratch fields and calls next()
HandlerNext ==
    /\ req.pc = "handler"
    /\ \E a \in Answers, st \in Statuses, ec \in ErrorCodes, m \in Messages :
        req' = [req EXCEPT !.answer = a, !.status = st, !.errorCode = ec,
                           !.message = m, !.pc = "success"]
    /\ UNCHANGED <<writes, log, raised, parseVars, roleVars, bootVars>>

\* the route handler sets scratch fields and calls next(err)
HandlerNextErr ==
    /\ req.pc = "handler"
    /\ \E a \in Answers, st \in Statuses, ec \in ErrorCodes, m \in Messages,
          e \in ThrownValues :
        req' = [req EXCEPT !.answer = a, !.status = st, !.errorCode = ec,
                           !.message = m, !.pc = "error", !.err = Some(e)]
    /\ UNCHANGED <<writes, log, raised, parseVars, roleVars, bootVars>>

\* express runs _genericSuccessMiddleware; an exception it throws is passed to
\* the error-handling middleware
SuccessStage ==
    /\ req.pc = "success"
    /\ \E rnd \in Codes, hdr \in BOOLEAN :
        \E out \in {_genericSuccessMiddleware(req, rnd, hdr)} :
            /\ writes' = writes \o out.writes
            /\ log' = log \o out.log
            /\ req' = [req EXCEPT !.trace = Append(@, "success"),
                                  !.pc = IF out.thrown = None THEN "done" ELSE "error",
                                  !.err = out.thrown]
    /\ UNCHANGED <<raised, parseVars, roleVars, bootVars>>

\* express runs _genericErrorMiddleware on the value passed to next
ErrorStage ==
    /\ req.pc = "error"
    /\ \E rnd \in Codes :
        \E out \in {_genericErrorMiddleware(req.err[1], writes # <<>>, rnd)} :
            /\ writes' = writes \o out.writes
            /\ log' = log \o out.log
            /\ raised' = out.raised
            /\ req' = [req EXCEPT !.trace = Append(@, "error"),
                                  !.pc = IF out.raised = None THEN "done" ELSE "failed"]
    /\ UNCHANGED <<parseVars, roleVars, bootVars>>

NextEnv == HandlerNext \/ HandlerNextErr \/ SuccessStage \/ ErrorStage

SpecEnv == InitEnv /\ [][NextEnv]_vars

(***************************************************************************)
(* Claims about the envelope pipeline (SpecEnv)                            *)
(***************************************************************************)
\* the success stage has run for the request
SuccessRan == Len(req.trace) >= 1 /\ req.trace[1] = "success"

\* the handler called next(err) and the error stage has run on that value
HandlerErrorHandled == req.trace = <<"error">>

\* "<Error #code: text.>" for one of the codes that can be drawn
IsNormalized(m, text) == \E c \in Codes : m = S_ErrorHash \o c \o S_ColonSp \o text \o S_Dot

\* C1: the pipeline never attempts a second response write for a request.
C1_WriteOnce == Len(writes) <= 1

\* C2: when the success stage runs with neither answer nor status set, the
\* response is 404 and no success / soft-error envelope is produced.
C2_NotFoundOnly ==
    (SuccessRan /\ req.answer = None /\ req.status = Undef) =>
        /\ writes[1].status = "404"
        /\ \A i \in 1..Len(writes) : writes[i].kind # "json"

\* C3 as stated: whenever the handler set an errorCode without throwing, the
\* status of the response is req.status, or 200 when that is unset.
C3_Original ==
    (SuccessRan /\ req.errorCode # Undef) => writes[1].status = StatusOr200(req)

\* C3 amended: whenever the handler set an errorCode without throwing, and set
\* an answer or a status, the one response written has status req.status, or
\* 200 when that is unset; with neither answer nor status set the response
\* that reaches the client is the 404 of the guard.
C3_Status ==
    (SuccessRan /\ req.errorCode # Undef) =>
        IF req.answer # None \/ req.status # Undef
        THEN Len(writes) = 1 /\ writes[1].status = StatusOr200(req)
        ELSE writes[1].status = "404"

\* C3 witness: a soft error with the answer unset and a status override.
C3_Witness ==
    /\ SuccessRan
    /\ req.errorCode # Undef
    /\ req.answer = None
    /\ req.status = "201"
    /\ writes[1].status = "201"

\* C4 as stated: errorCode "1" and no message give the body
\* {errorCode: "1", message: <normalized "Invalid Session">, data: answer} at 200.
C4_Original ==
    (SuccessRan /\ req.errorCode = "1" /\ req.message = None) =>
        /\ writes[1].kind = "json"
        /\ writes[1].status = "200"
        /\ writes[1].body.errorCode = "1"
        /\ writes[1].body.data = req.answer
        /\ writes[1].body.message # None
        /\ IsNormalized(writes[1].body.message[1], S_InvalidSession)

\* C4 amended: errorCode "1", no message, and an answer or a status set give
\* exactly one write, with that body, at status req.status, or 200 when the
\* handler set no status.
C4_InvalidSession ==
    (SuccessRan /\ req.errorCode = "1" /\ req.message = None
        /\ (req.answer # None \/ req.status # Undef)) =>
        /\ Len(writes) = 1
        /\ writes[1].kind = "json"
        /\ writes[1].status = (IF req.status = Undef THEN "200" ELSE req.status)
        /\ writes[1].body.errorCode = "1"
        /\ writes[1].body.data = req.answer
        /\ writes[1].body.message # None
        /\ IsNormalized(writes[1].body.message[1], S_InvalidSession)

\* C4 witness: errorCode "1" with an answer, no message and no status: 200.
C4_Witness ==
    /\ SuccessRan
    /\ req.errorCode = "1"
    /\ req.message = None
    /\ req.answer # None
    /\ req.status = Undef
    /\ req.pc = "done"
    /\ writes[1].status = "200"

\* C5: a value thrown by the handler with no code field is answered with status
\* 500 whatever status it declares, a normalized message and no errorCode key.
C5_Unclassified ==
    (HandlerErrorHandled /\ req.err[1].code = Undef) =>
        /\ raised = None
        /\ Len(writes) = 1
        /\ writes[1].kind = "json"
        /\ writes[1].status = "500"
        /\ writes[1].body.errorCode = Undef
        /\ writes[1].body.message # None
        /\ \E c \in Codes : startsWith(writes[1].body.message[1], CodePrefix(c))
        /\ \/ endsWith(writes[1].body.message[1], S_Dot)
           \/ endsWith(writes[1].body.message[1], S_Q)

\* C5 witness: a thrown value without a code that declares status 403.
C5_Witness ==
    /\ HandlerErrorHandled
    /\ req.err[1].code = Undef
    /\ req.err[1].status = "403"
    /\ writes[1].status = "500"

\* C6: a thrown value whose code has a table entry is answered with
\* {errorCode: code, message: <normalized table message>} at its own status,
\* or 200 when it declares none.
C6_Classified ==
    \A i \in 1..Len(DataResponse) :
        (HandlerErrorHandled /\ req.err[1].code = DataResponse[i].errorCode) =>
            /\ raised = None
            /\ Len(writes) = 1
            /\ writes[1].kind = "json"
            /\ writes[1].status =
                 (IF req.err[1].status = Undef THEN "200" ELSE req.err[1].status)
            /\ writes[1].body.errorCode = req.err[1].code
            /\ writes[1].body.data = None
            /\ writes[1].body.message # None
            /\ IsNormalized(writes[1].body.message[1], DataResponse[i].message)

\* C6 witness: code "1" thrown without a status is answered at 200.
C6_Witness ==
    /\ HandlerErrorHandled
    /\ req.err[1].code = "1"
    /\ req.err[1].status = Undef
    /\ writes[1].status = "200"
    /\ writes[1].body.errorCode = "1"

\* C7: a thrown value whose code has no table entry is answered as an
\* unclassified failure: no exception escapes the error stage, status 500,
\* body {message: <normalized>}.
C7_UnknownCode ==
    (HandlerErrorHandled /\ req.err[1].code # Undef
        /\ \A i \in 1..Len(DataResponse) : DataResponse[i].errorCode # req.err[1].code) =>
        /\ raised = None
        /\ Len(writes) = 1
        /\ writes[1].status = "500"
        /\ writes[1].body.errorCode = Undef
        /\ writes[1].body.message # None

\* the error responses among the writes: every JSON body but the success envelope
ErrorResponses == {i \in 1..Len(writes) : writes[i].kind = "json" /\ writes[i].body.errorCode # "0"}

\* the message of the response starts with "Error #<code>: " for a code that
\* keys an entry of the log
HasLoggedCode(w) ==
    /\ w.body.message # None
    /\ \E c \in Codes :
        /\ startsWith(w.body.message[1], CodePrefix(c))
        /\ \E k \in 1..Len(log) : log[k].level = "error" /\ log[k].key = c

\* write i is the envelope of the success stage for a soft error with an
\* explicit message or a code without table entry (branch 2a)
IsBranch2a(i) ==
    /\ SuccessRan
    /\ i = (IF writes[1].kind = "text" THEN 2 ELSE 1)
    /\ Truthy(req.errorCode)
    /\ \/ TruthyOpt(req.message)
       \/ \A j \in 1..Len(DataResponse) : DataResponse[j].errorCode # req.errorCode

\* C17 as stated: every error response (soft-error branches 2a and 2b, both
\* branches of the error stage) has in its message a correlation code that
\* is also in the log of the request.
C17_Original == \A i \in ErrorResponses : HasLoggedCode(writes[i])

\* C17 amended: every error response of branch 2b of the success stage and of
\* the error stage has in its message a correlation code that keys an
\* error-level entry of the log of the request; a response of branch 2a
\* carries the handler's message as it is and the stage logs nothing for it.
C17_Correlated ==
    \A i \in ErrorResponses :
        IF IsBranch2a(i)
        THEN /\ writes[i].body.message = req.message
             /\ req.trace = <<"success">> => log = <<>>
        ELSE HasLoggedCode(writes[i])

\* C17 witness: a soft error with a table entry and no message (branch 2b) was
\* answered with a message whose code keys both log entries.
C17_Witness ==
    /\ req.trace = <<"success">>
    /\ req.errorCode = "1"
    /\ req.message = None
    /\ req.answer # None
    /\ ErrorResponses = {1}
    /\ HasLoggedCode(writes[1])
    /\ Len(log) = 2
    /\ log[1].key = log[2].key

\* the response to a thrown value never shows the text of its message
HidesMessage(w, err) == err.message # <<>> => Occurrences(w.body.message[1], err.message) = 0

\* C18 as stated: a thrown value whose name contains 'Sequelize' is answered,
\* whatever its code, status and message, with the normalization of
\* 'Connection Database Fail', which has none of its message text.
C18_Original ==
    (HandlerErrorHandled /\ NameIncludesSequelize(req.err[1])) =>
        /\ Len(writes) = 1
        /\ writes[1].body.message # None
        /\ IsNormalized(writes[1].body.message[1], S_ConnectionDatabaseFail)
        /\ HidesMessage(writes[1], req.err[1])

\* C18 amended: a thrown value whose name contains 'Sequelize' and that
\* carries no code is answered, whatever its status and message, at status
\* 500 with the normalization of 'Connection Database Fail', which has none
\* of its message text; one that carries a code of the table is answered
\* with the normalized table message of that code instead.
C18_Scrubbed ==
    (HandlerErrorHandled /\ NameIncludesSequelize(req.err[1])) =>
        /\ req.err[1].code = Undef =>
            /\ Len(writes) = 1
            /\ writes[1].status = "500"
            /\ writes[1].body.message # None
            /\ IsNormalized(writes[1].body.message[1], S_ConnectionDatabaseFail)
            /\ HidesMessage(writes[1], req.err[1])
        /\ \A i \in 1..Len(DataResponse) :
            req.err[1].code = DataResponse[i].errorCode =>
                /\ Len(writes) = 1
                /\ writes[1].body.message # None
                /\ IsNormalized(writes[1].body.message[1], DataResponse[i].message)
                /\ HidesMessage(writes[1], req.err[1])

\* C18 witness: a SequelizeConnectionError with a message, a status and no
\* code was answered at 500 with the fixed text.
C18_Witness ==
    /\ HandlerErrorHandled
    /\ req.err[1].name = N_SequelizeConnectionError
    /\ req.err[1].code = Undef
    /\ req.err[1].message = <<"x">>
    /\ req.err[1].status = "403"
    /\ writes[1].status = "500"
    /\ IsNormalized(writes[1].body.message[1], S_ConnectionDatabaseFail)

\* the handler set an errorCode and a message, or an errorCode without table entry
ExplicitSoftError ==
    /\ SuccessRan
    /\ Truthy(req.errorCode)
    /\ \/ TruthyOpt(req.message)
       \/ \A j \in 1..Len(DataResponse) : DataResponse[j].errorCode # req.errorCode

VerbatimBody == Body(req.errorCode, req.message, req.answer)

\* parseError writes an error-level entry for every string it is given, so an
\* empty log shows it was not called
ParseErrorNotInvoked == log = <<>>

\* C21 as stated: when the handler set an errorCode and a message, or an
\* errorCode without table entry, the response body is {errorCode, message,
\* data} with the message verbatim, and parseError is not invoked for the
\* request.
C21_Original ==
    ExplicitSoftError =>
        /\ writes[1].kind = "json"
        /\ writes[1].body = VerbatimBody
        /\ ParseErrorNotInvoked

\* C21 amended: when the handler set an errorCode and a message, or an
\* errorCode without table entry, and set an answer or a status, exactly one
\* response is written, its body is {errorCode, message, data} with the
\* message verbatim, and parseError is not invoked for the request.
C21_Verbatim ==
    (ExplicitSoftError /\ (req.answer # None \/ req.status # Undef)) =>
        /\ writes = <<JsonWrite(StatusOr200(req), VerbatimBody)>>
        /\ req.pc = "done"
        /\ ParseErrorNotInvoked

\* C21 witness: errorCode "1", which has a table entry, with an explicit
\* message was answered with that message.
C21_Witness ==
    /\ ExplicitSoftError
    /\ req.errorCode = "1"
    /\ req.message = Some(<<"m">>)
    /\ req.answer # None
    /\ writes[1].body.message = Some(<<"m">>)
    /\ log = <<>>

\* C22: when the handler set no errorCode and set an answer or a status, the
\* response body is exactly {errorCode: "0", message: "Success", data:
\* req.answer} at status req.status, or 200 when no status was set.
C22_Success ==
    (SuccessRan /\ req.errorCode = Undef /\ (req.answer # None \/ req.status # Undef)) =>
        /\ writes =
            <<JsonWrite(IF req.status = Undef THEN "200" ELSE req.status,
                        Body("0", Some(S_Success), req.answer))>>
        /\ req.pc = "done"

\* C22 witness: no errorCode, an answer and no status: the success envelope
\* with the answer at 200.
C22_Witness ==
    /\ SuccessRan
    /\ req.errorCode = Undef
    /\ req.answer = Some("payload")
    /\ req.status = Undef
    /\ writes[1].status = "200"
    /\ writes[1].body.errorCode = "0"
    /\ writes[1].body.data = Some("payload")

(***************************************************************************)
(* Role routes (role-function.js in src/src/sql/index.js:197-259) behind   *)
(* the envelope.  The role table maps id to role_name.  A handler runs up  *)
(* to its next await as one step; next() / next(err) run the envelope      *)
(* stage synchronously, inside the step that calls them.                   *)
(***************************************************************************)
N_SequelizeValidationError ==
    S_Sequelize \o <<"V", "a", "l", "i", "d", "a", "t", "i", "o", "n">> \o S_Error

\* the rejection of a query that fails (connection lost, pool exhausted)
DbError == Err(N_SequelizeConnectionError, <<"x">>, Undef, Undef)

\* role_name is allowNull: false (index.js:98-101)
NotNullViolation == Err(N_SequelizeValidationError, <<"x">>, Undef, Undef)

\* `const error = new Error()` with error.code set (index.js:212, 227, 232)
CodedError(code) == Err(N_Error, <<>>, code, Undef)

RoleIds == 1..MaxRoles
RequestedIds == 1..(MaxRoles + 1)
InitialName == <<"A">>
RoleNames == {<<>>, <<" ">>, <<"X">>, <<"Y">>}

\* _.isEmpty(roleName) for a string
isEmpty(name) == Len(name) = 0

\* the intercepted Model.prototype.set (index.js:57-63) stores null for a
\* string that is empty once trimmed
IsBlank(name) == \A k \in 1..Len(name) : name[k] = " "

\* SQL.role.findOne({where: {id}}): the row, or None (null) when there is none
findOne(table, id) ==
    IF id \in DOMAIN table THEN Some([id |-> id, role_name |-> table[id]]) ELSE None

\* mutant: UPDATE without the where clause renames every row
updateAllRows(table, id, name) == [j \in DOMAIN table |-> name]

\* SQL.role.update({role_name}, {where: {id}})
updateRow(table, id, name) == [j \in DOMAIN table |-> IF j = id THEN name ELSE table[j]]

\* the scratch fields the envelope reads: the role handlers set req.answer only
Scratch(answer) ==
    [answer |-> answer, status |-> Undef, errorCode |-> Undef, message |-> None]

\* ran: the envelope stages that ran, in order
ChainOut(ws, raisedBy, ran) == [writes |-> ws, raised |-> raisedBy, stages |-> ran]

AfterError(before, ran, e) == ChainOut(before \o e.writes, e.raised, Append(ran, "error"))

\* an exception of the success stage goes to the error stage
AfterSuccess(sOut, rnd) ==
    IF sOut.thrown = None THEN ChainOut(sOut.writes, None, <<"success">>)
    ELSE AfterError(sOut.writes, <<"success">>,
                    _genericErrorMiddleware(sOut.thrown[1], TRUE, rnd))

\* next(): the success stage of the route (app.js:87)
CallNext(answer, rnd, hdr) ==
    AfterSuccess(_genericSuccessMiddleware(Scratch(answer), rnd, hdr), rnd)

\* mutant: next(err) does not skip the success stage
CallNextErrViaSuccess(err, rnd) ==
    AfterError(<<>>, <<"success">>, _genericErrorMiddleware(err, FALSE, rnd))

\* next(err): express skips to the error stage (app.js:73)
CallNextErr(err, rnd) == AfterError(<<>>, <<>>, _genericErrorMiddleware(err, FALSE, rnd))

NewRoleReq ==
    [kind |-> "none", roleId |-> 0, roleName |-> <<>>, pc |-> "idle",
     answer |-> None, err |-> None, writes |-> <<>>, raised |-> None,
     readAt |-> 0, doneBefore |-> {}, calls |-> <<>>, stages |-> <<>>]

InitRole ==
    /\ db = [id \in RoleIds |-> InitialName]
    /\ rq = [i \in 1..MaxReqs |-> NewRoleReq]
    /\ hist = <<>>
    /\ ParseIdle
    /\ EnvIdle
    /\ BootIdle

Done(i) == rq[i].pc \in {"done", "failed"}

DoneSet == {i \in 1..MaxReqs : Done(i)}

\* the request ends with next(): req.answer set, envelope written
Answered(r, answer, out) ==
    [r EXCEPT !.answer = answer, !.writes = out.writes, !.raised = out.raised,
              !.calls = Append(@, "next"), !.stages = @ \o out.stages,
              !.pc = IF out.raised = None THEN "done" ELSE "failed"]

\* the request ends with next(err)
Failed(r, err, out) ==
    [r EXCEPT !.err = Some(err), !.writes = out.writes, !.raised = out.raised,
              !.calls = Append(@, "next(err)"), !.stages = @ \o out.stages,
              !.pc = IF out.raised = None THEN "done" ELSE "failed"]

\* getListRoles: findAll, req.answer = roles, next()
GetListRoles(i) ==
    /\ rq[i].pc = "idle"
    /\ \E rnd \in Codes, hdr \in BOOLEAN :
        rq' = [rq EXCEPT ![i] =
                Answered([@ EXCEPT !.kind = "list", !.readAt = Len(hist),
                                   !.doneBefore = DoneSet],
                         Some(db), CallNext(Some(db), rnd, hdr))]
    /\ UNCHANGED <<db, hist, parseVars, envVars, bootVars>>

\* getListRoles: findAll rejects, next(err)
GetListRolesFails(i) ==
    /\ rq[i].pc = "idle"
    /\ \E rnd \in Codes :
        rq' = [rq EXCEPT ![i] =
                Failed([@ EXCEPT !.kind = "list"], DbError, CallNextErr(DbError, rnd))]
    /\ UNCHANGED <<db, hist, parseVars, envVars, bootVars>>

\* mutant: the name is checked before the row
ValidationNameFirst(data, roleName) ==
    IF isEmpty(roleName) THEN Some(CodedError("001002"))
    ELSE IF data = None THEN Some(CodedError("001001"))
    ELSE None

\* what the first part of updateRole throws, None when it goes on to the UPDATE
\* (index.js:220-234)
Validation(data, roleName) ==
    IF data = None THEN Some(CodedError("001001"))
    ELSE IF isEmpty(roleName) THEN Some(CodedError("001002"))
    ELSE None

FirstPart(r, thrown, rnd) ==
    IF thrown = None THEN [r EXCEPT !.pc = "update"]
    ELSE Failed(r, thrown[1], CallNextErr(thrown[1], rnd))

\* updateRole up to the UPDATE: findOne, the two checks
UpdateRoleFind(i) ==
    /\ rq[i].pc = "idle"
    /\ \E id \in RequestedIds, name \in RoleNames, rnd \in Codes :
        rq' = [rq EXCEPT ![i] =
                FirstPart([@ EXCEPT !.kind = "update", !.roleId = id, !.roleName = name],
                          Validation(findOne(db, id), name), rnd)]
    /\ UNCHANGED <<db, hist, parseVars, envVars, bootVars>>

\* updateRole: the first findOne rejects, next(err)
UpdateRoleFindFails(i) ==
    /\ rq[i].pc = "idle"
    /\ \E id \in RequestedIds, name \in RoleNames, rnd \in Codes :
        rq' = [rq EXCEPT ![i] =
                Failed([@ EXCEPT !.kind = "update", !.roleId = id, !.roleName = name],
                       DbError, CallNextErr(DbError, rnd))]
    /\ UNCHANGED <<db, hist, parseVars, envVars, bootVars>>

\* updateRole: the UPDATE is executed
UpdateRoleWrite(i) ==
    /\ rq[i].pc = "update"
    /\ ~IsBlank(rq[i].roleName)
    /\ db' = updateRow(db, rq[i].roleId, rq[i].roleName)
    /\ hist' = Append(hist, [by |-> i, id |-> rq[i].roleId, name |-> rq[i].roleName,
                             before |-> db])
    /\ rq' = [rq EXCEPT ![i].pc = "refetch"]
    /\ UNCHANGED <<parseVars, envVars, bootVars>>

\* updateRole: the UPDATE rejects (a blank name is stored as null, which the
\* column refuses; or the query fails), next(err)
UpdateRoleWriteFails(i) ==
    /\ rq[i].pc = "update"
    /\ \E e \in (IF IsBlank(rq[i].roleName) THEN {NotNullViolation}
                ELSE {DbError}), rnd \in Codes :
        rq' = [rq EXCEPT ![i] = Failed(@, e, CallNextErr(e, rnd))]
    /\ UNCHANGED <<db, hist, parseVars, envVars, bootVars>>

\* updateRole: the second findOne, req.answer = newData, next()
UpdateRoleRefetch(i) ==
    /\ rq[i].pc = "refetch"
    /\ \E rnd \in Codes, hdr \in BOOLEAN :
        rq' = [rq EXCEPT ![i] =
                Answered(@, findOne(db, rq[i].roleId),
                         CallNext(findOne(db, rq[i].roleId), rnd, hdr))]
    /\ UNCHANGED <<db, hist, parseVars, envVars, bootVars>>

\* updateRole: the second findOne rejects, next(err)
UpdateRoleRefetchFails(i) ==
    /\ rq[i].pc = "refetch"
    /\ \E rnd \in Codes :
        rq' = [rq EXCEPT ![i] = Failed(@, DbError, CallNextErr(DbError, rnd))]
    /\ UNCHANGED <<db, hist, parseVars, envVars, bootVars>>

NextRole ==
    \E i \in 1..MaxReqs :
        \/ GetListRoles(i)
        \/ GetListRolesFails(i)
        \/ UpdateRoleFind(i)
        \/ UpdateRoleFindFails(i)
        \/ UpdateRoleWrite(i)
        \/ UpdateRoleWriteFails(i)
        \/ UpdateRoleRefetch(i)
        \/ UpdateRoleRefetchFails(i)

SpecRole == InitRole /\ [][NextRole]_vars

(***************************************************************************)
(* Claims about the role routes (SpecRole)                                 *)
(***************************************************************************)
\* request i was an update that failed validation: no such role, or empty name
ValidationFailed(i) ==
    /\ rq[i].kind = "update"
    /\ Done(i)
    /\ rq[i].err # Some(DbError)
    /\ rq[i].roleId \notin RoleIds \/ isEmpty(rq[i].roleName)

\* C8: an update whose roleId matches no row, or whose roleName is empty, ends
\* in a soft error envelope {errorCode, message, data: null} at status 200,
\* errorCode '001001' for role not found and '001002' for empty name.
C8_SoftError ==
    \A i \in 1..MaxReqs :
        ValidationFailed(i) =>
            /\ rq[i].raised = None
            /\ Len(rq[i].writes) = 1
            /\ rq[i].writes[1].kind = "json"
            /\ rq[i].writes[1].status = "200"
            /\ rq[i].writes[1].body.errorCode =
                 (IF rq[i].roleId \notin RoleIds THEN "001001" ELSE "001002")
            /\ rq[i].writes[1].body.data = None

\* update u answered successfully and list g read the table after u was done
UpdateThenList(u, g) ==
    /\ rq[u].kind = "update"
    /\ rq[u].pc = "done"
    /\ rq[u].answer # None
    /\ rq[g].kind = "list"
    /\ rq[g].pc = "done"
    /\ rq[g].answer # None
    /\ u \in rq[g].doneBefore

\* the position in the history of the UPDATE request u executed
HistIndex(u) == CHOOSE k \in 1..Len(hist) : hist[k].by = u

\* no UPDATE of row id was executed after history position k and before the
\* read of request g
Untouched(id, k, g) == \A j \in (k + 1)..rq[g].readAt : hist[j].id # id

\* C9: after a successful update of role id to X, with no other update of that
\* role in between, a following GET /role/all answers a list in which that
\* role has role_name X, and every other role (not updated in between) has the
\* name it had before the update.
C9_RoundTrip ==
    \A u \in 1..MaxReqs, g \in 1..MaxReqs :
        (UpdateThenList(u, g) /\ Untouched(rq[u].roleId, HistIndex(u), g)) =>
            /\ rq[g].writes =
                 <<JsonWrite("200", Body("0", Some(S_Success), rq[g].answer))>>
            /\ DOMAIN rq[g].answer[1] = RoleIds
            /\ rq[g].answer[1][rq[u].roleId] = rq[u].roleName
            /\ \A other \in RoleIds \ {rq[u].roleId} :
                 Untouched(other, HistIndex(u), g) =>
                     rq[g].answer[1][other] = hist[HistIndex(u)].before[other]

\* C9 witness: an update of role 1 to X answered, then a list showing X for
\* role 1 and the initial name for role 2.
C9_Witness ==
    \E u \in 1..MaxReqs, g \in 1..MaxReqs :
        /\ UpdateThenList(u, g)
        /\ rq[u].roleId = 1
        /\ rq[u].roleName = <<"X">>
        /\ rq[g].answer[1][1] = <<"X">>
        /\ rq[g].answer[1][2] = InitialName

\* update i was answered through next() with the row of its second findOne
UpdateAnswered(i) ==
    /\ rq[i].kind = "update"
    /\ rq[i].pc = "done"
    /\ rq[i].answer # None

\* C23: under any interleaving of concurrent updates of one role id (findOne,
\* UPDATE and second findOne being separate steps) the record a successful
\* response returns as data has the role_name that same request submitted.
C23_OwnName ==
    \A i \in 1..MaxReqs :
        UpdateAnswered(i) =>
            /\ rq[i].answer[1].role_name = rq[i].roleName
            /\ \A k \in 1..Len(rq[i].writes) :
                rq[i].writes[k].body.data =
                    Some([id |-> rq[i].roleId, role_name |-> rq[i].roleName])

\* the UPDATEs request i executed
WritesBy(i) == {k \in 1..Len(hist) : hist[k].by = i}

\* C24: updateRole writes nothing when validation fails: if roleId matches no
\* row, or roleName is empty, the request executes no UPDATE and leaves
\* req.answer unset; when both hold the code reported is '001001'.
C24_NoWrite ==
    \A i \in 1..MaxReqs :
        ValidationFailed(i) =>
            /\ WritesBy(i) = {}
            /\ rq[i].answer = None
            /\ rq[i].err # None
            /\ rq[i].err[1].code =
                 (IF rq[i].roleId \notin RoleIds THEN "001001" ELSE "001002")

\* C24 witness: an update of a missing role with an empty name ended with
\* code '001001' while another request had renamed a row.
C24_Witness ==
    \E i \in 1..MaxReqs :
        /\ ValidationFailed(i)
        /\ rq[i].roleId \notin RoleIds
        /\ isEmpty(rq[i].roleName)
        /\ rq[i].err[1].code = "001001"
        /\ Len(hist) = 1
        /\ WritesBy(i) = {}

\* the success stage fails on a request: its 404 guard wrote first
SuccessStageFails(i) == Guard404(Scratch(rq[i].answer)) # <<>>

\* C25: a role handler calls next exactly once, next() or next(err) and never
\* both; after next(err) the success stage never runs and the error stage
\* runs exactly once; after next() the success stage runs, and the error
\* stage runs after it only if the success stage itself failed.
C25_OneStage ==
    \A i \in 1..MaxReqs :
        /\ Len(rq[i].calls) = (IF Done(i) THEN 1 ELSE 0)
        /\ ~Done(i) => rq[i].stages = <<>>
        /\ rq[i].calls = <<"next(err)">> =>
            /\ rq[i].err # None
            /\ rq[i].stages = <<"error">>
        /\ rq[i].calls = <<"next">> =>
            /\ rq[i].err = None
            /\ rq[i].stages = (IF SuccessStageFails(i) THEN <<"success", "error">>
                               ELSE <<"success">>)

\* C25 witness: one request ended through next(err) and the error stage,
\* another through next() and the success stage.
C25_Witness ==
    \E i \in 1..MaxReqs, j \in 1..MaxReqs :
        /\ rq[i].calls = <<"next(err)">>
        /\ rq[i].stages = <<"error">>
        /\ rq[j].calls = <<"next">>
        /\ rq[j].stages = <<"success">>
        /\ rq[j].kind = "update"

(***************************************************************************)
(* Specification of parseError as a function: one call on a drawn input    *)
(***************************************************************************)

InitParse ==
    /\ perr \in ParseInputs
    /\ pwith \in BOOLEAN
    /\ pres = None
    /\ EnvIdle
    /\ RoleIdle
    /\ BootIdle

ParseErrorCall ==
    /\ pres = None
    /\ \E rnd \in Codes : pres' = Some(parseError(perr, pwith, rnd))
    /\ UNCHANGED <<perr, pwith, envVars, roleVars, bootVars>>

NextParse == ParseErrorCall

SpecParse == InitParse /\ [][NextParse]_vars

(***************************************************************************)
(* Claims about parseError                                                 *)
(***************************************************************************)
\* the inputs C10 speaks of: a string, an Error, or a plain array of these
IsStringOrError(x) == x.t \in {"str", "err"}

InStringErrorDomain(x) ==
    \/ IsStringOrError(x)
    \/ x.t = "arr" /\ \A i \in 1..Len(x.v) : IsStringOrError(x.v[i])

\* the (input element, output string) pairs of a completed call
ParsePairs ==
    LET r == pres[1]
    IN  IF perr.t = "arr" THEN {<<perr.v[i], r.errors[i]>> : i \in 1..Len(perr.v)}
        ELSE {<<perr, r.errors>>}

ParseDone == pres # None /\ InStringErrorDomain(perr)

\* C10 as stated: every output string ends in '.' or '?', starts with 'Error',
\* and with withCode contains 'Error #<code>: ' exactly once.
C10_Original ==
    ParseDone =>
        /\ ~pres[1].threw
        /\ \A pr \in ParsePairs :
            /\ endsWith(pr[2], S_Dot) \/ endsWith(pr[2], S_Q)
            /\ startsWith(pr[2], S_Error)
            /\ pwith => Occurrences(pr[2], CodePrefix(pres[1].code)) = 1

\* C10 amended: every output string ends in '.' or '?' and starts with 'Error';
\* with withCode it starts with 'Error #<code>: ', and that prefix is the only
\* occurrence parseError adds: the output holds one occurrence more than the
\* rendering of the input element does (so exactly one unless the input text
\* already contains 'Error #<code>: ' with the code that was drawn).
C10_Format ==
    ParseDone =>
        /\ ~pres[1].threw
        /\ \A pr \in ParsePairs :
            /\ endsWith(pr[2], S_Dot) \/ endsWith(pr[2], S_Q)
            /\ startsWith(pr[2], S_Error)
            /\ pwith =>
                /\ startsWith(pr[2], CodePrefix(pres[1].code))
                /\ Occurrences(pr[2], CodePrefix(pres[1].code))
                     = 1 + Occurrences(toString(pr[1]), CodePrefix(pres[1].code))

\* C10 witness: a call with a code on a string that already carries the
\* 'Error #<code>: ' prefix of the very code drawn.
C10_Witness ==
    /\ ParseDone
    /\ perr.t = "str"
    /\ pwith
    /\ startsWith(perr.v, CodePrefix(pres[1].code))
    /\ ~pres[1].threw

\* an aggregate input (plain array or AggregateError) of strings and Errors
AggregateDone ==
    /\ pres # None
    /\ IsList(perr)
    /\ \A i \in 1..Len(perr.v) : IsStringOrError(perr.v[i])

\* C11: for an aggregate of N errors (array or AggregateError, N >= 0)
\* parseError returns exactly N strings, the i-th being what parseError gives
\* for the i-th element alone with the same code, all under the single code
\* returned.
C11_Aggregate ==
    AggregateDone =>
        /\ ~pres[1].threw
        /\ pres[1].code = (IF pwith THEN pres[1].code ELSE NullCode)
        /\ pwith => pres[1].code \in Codes
        /\ Len(pres[1].errors) = Len(perr.v)
        /\ \A i \in 1..Len(perr.v) :
            /\ pres[1].errors[i] = parseErrorCoded(perr.v[i], pres[1].code).errors
            /\ pwith => startsWith(pres[1].errors[i], CodePrefix(pres[1].code))

\* C11 witness: an AggregateError of two different elements, formatted in order.
C11_Witness ==
    /\ AggregateDone
    /\ perr.t = "agg"
    /\ Len(perr.v) = 2
    /\ perr.v[1] # perr.v[2]
    /\ Len(pres[1].errors) = 2
    /\ pres[1].errors[1] # pres[1].errors[2]

\* C12: parseError never throws; for null / undefined, alone or as an element
\* of an array, it still returns {code, errors}.
C12_NeverThrows == pres # None => ~pres[1].threw

\* an Error named FeatureNotEnabled (an AggregateError has its own name)
IsFeatureNotEnabled(err) == err.t = "err" /\ err.name = N_FeatureNotEnabled

\* C20: a call of parseError whose input is not an Error named
\* 'FeatureNotEnabled' writes exactly one error-level log entry keyed by the
\* correlation code before it returns or fails; a call on an Error named
\* 'FeatureNotEnabled' writes none; and for an array or an AggregateError
\* the payload logged is the list of the elements' string renderings only.
C20_LogsOnce ==
    pres # None =>
        /\ ~IsFeatureNotEnabled(perr) =>
            /\ Len(pres[1].log) = 1
            /\ pres[1].log[1].level = "error"
            /\ pres[1].log[1].key = pres[1].code
        /\ IsFeatureNotEnabled(perr) => pres[1].log = <<>>
        /\ IsList(perr) =>
            \A k \in 1..Len(pres[1].log) : pres[1].log[k].payload = "strings"

(***************************************************************************)
(* configuration.js.  A tree node is a leaf [k |-> "leaf", v], a plain     *)
(* object [k |-> "map", m |-> key -> node, frozen] or an array             *)
(* [k |-> "arr", a |-> nodes]; Undefined is JavaScript's undefined.  A key *)
(* 'a.b.c' is the sequence of its segments.                                *)
(***************************************************************************)
Leaf(v) == [k |-> "leaf", v |-> v]

Map(m) == [k |-> "map", m |-> m, frozen |-> FALSE]

ArrV(a) == [k |-> "arr", a |-> a]

Undefined == [k |-> "undef"]

\* Object.freeze: the object itself, not the objects it holds
Freeze(node) == [node EXCEPT !.frozen = TRUE]

\* the part of DEFAULTS the application reads at startup (configuration.js:19-170)
DEFAULTS ==
    Freeze(Map([
        timezone |-> Leaf("+08:00"),
        server |-> Map([
            http |-> Map([port |-> Leaf("8090")]),
            cors |-> Map([
                methods |-> ArrV(<<Leaf("GET"), Leaf("HEAD"), Leaf("PUT"),
                                   Leaf("PATCH"), Leaf("POST"), Leaf("DELETE")>>)]),
            urls |-> Map([
                web_routers |-> ArrV(<<
                    Map([csrf |-> Leaf("false"), path |-> Leaf("/role"),
                         file |-> Leaf("./src/data/role/role-router")])>>)])]),
        log |-> Map([
            appenders |-> Map([
                console |-> Map([type |-> Leaf("console")]),
                stdout |-> Map([type |-> Leaf("stdout")])])])]))

Max(a, b) == IF a >= b THEN a ELSE b

MapOf(node) == IF node.k = "map" THEN node.m ELSE <<>>

ArrOf(node) == IF node.k = "arr" THEN node.a ELSE <<>>

At(f, x) == IF x \in DOMAIN f THEN f[x] ELSE Undefined

\* lodash _.merge of one source into a destination value: a leaf replaces, a
\* plain object is merged key by key into the destination object (or a fresh
\* one), an array is merged index by index into the destination array (or a
\* fresh one).  (A plain object merged onto an array is not among the inputs.)
RECURSIVE Merge(_, _)
MergeMap(base, src) ==
    Map([key \in DOMAIN base \cup DOMAIN src |->
            IF key \in DOMAIN src THEN Merge(At(base, key), src[key]) ELSE base[key]])

MergeArr(base, src) ==
    ArrV([i \in 1..Max(Len(base), Len(src)) |->
            IF i <= Len(src) THEN Merge(At(base, i), src[i]) ELSE base[i]])

Merge(obj, src) ==
    CASE src.k = "map" -> MergeMap(MapOf(obj), src.m)
      [] src.k = "arr" -> MergeArr(ArrOf(obj), src.a)
      [] OTHER -> src

\* _.get(tree, path): Undefined when a segment is missing
RECURSIVE GetPath(_, _)
GetPath(node, path) ==
    IF path = <<>> THEN node
    ELSE IF node.k = "map" /\ Head(path) \in DOMAIN node.m
         THEN GetPath(node.m[Head(path)], Tail(path))
         ELSE Undefined

Put(m, key, v) == [x \in DOMAIN m \cup {key} |-> IF x = key THEN v ELSE m[x]]

\* the assignment obj.a.b = v on the tree (the object obj.a exists)
RECURSIVE SetPath(_, _, _)
SetPath(node, path, v) ==
    IF Len(path) = 1 THEN [node EXCEPT !.m = Put(node.m, Head(path), v)]
    ELSE [node EXCEPT !.m = Put(node.m, Head(path),
                                SetPath(node.m[Head(path)], Tail(path), v))]

\* the object an assignment at `path` writes to
Holder(node, path) == GetPath(node, SubSeq(path, 1, Len(path) - 1))

\* an assignment succeeds on an object that is not frozen; on a frozen one it
\* throws in strict mode, and is ignored otherwise
CanWrite(node, path) == Holder(node, path).k = "map" /\ ~Holder(node, path).frozen

Assign(node, path, v) == IF CanWrite(node, path) THEN SetPath(node, path, v) ELSE node

\* configuration.js:207-215: appender.layout = {...} for each appender
LayoutValue == Map([type |-> Leaf("pattern")])

RECURSIVE WithLayouts(_, _)
WithLayouts(node, names) ==
    IF names = {} THEN node
    ELSE WithLayouts(Assign(node, <<"log", "appenders", CHOOSE n \in names : TRUE, "layout">>,
                            LayoutValue),
                     names \ {CHOOSE n \in names : TRUE})

AppenderNames(node) == DOMAIN MapOf(GetPath(node, <<"log", "appenders">>))

Standardised(node) == WithLayouts(node, AppenderNames(node))

\* _setConfiguration(userSettings)
_setConfiguration(userSettings) ==
    Standardised(Freeze(Merge(Merge(Map(<<>>), DEFAULTS), userSettings)))

\* _getConfiguration(key, defaultValue): key None is get() without a key
Resolved(tree, key, defaultValue) ==
    IF GetPath(tree, key) = Undefined THEN defaultValue ELSE GetPath(tree, key)

\* _.get(configuration, key, defaultValue); without a key nothing resolves
GetValue(tree, key, defaultValue) ==
    IF key = None THEN defaultValue ELSE Resolved(tree, key[1], defaultValue)

_getConfiguration(tree, key, defaultValue) ==
    [key |-> key, fallback |-> defaultValue,
     warned |-> GetValue(tree, key, defaultValue) = Undefined,
     value |-> IF key = None THEN tree ELSE GetValue(tree, key, defaultValue)]

(***************************************************************************)
(* The settings file: any subset of the overrides below.                   *)
(***************************************************************************)
Opt(key, o) == IF o = None THEN <<>> ELSE (key :> o[1])

OptMap(key, m) == IF DOMAIN m = {} THEN <<>> ELSE (key :> Map(m))

UserRouter == Map([path |-> Leaf("/user"), file |-> Leaf("./src/data/user/user-router")])

UserTimezones == {None, Some(Leaf("+07:00"))}

UserPorts == {None, Some(Leaf("9000"))}

UserMethods == {None, Some(ArrV(<<Leaf("OPTIONS")>>)),
                Some(ArrV(<<Leaf("GET"), Leaf("POST"), Leaf("PUT"), Leaf("PATCH"),
                            Leaf("DELETE"), Leaf("HEAD"), Leaf("OPTIONS")>>))}

UserRouters == {None, Some(ArrV(<<>>)), Some(ArrV(<<UserRouter>>))}

UserAppenders == {None, Some(Map([type |-> Leaf("file")]))}

UserTree(tz, port, methods, routers, appender) ==
    Map(Opt("timezone", tz)
        @@ OptMap("server", OptMap("http", Opt("port", port))
                            @@ OptMap("cors", Opt("methods", methods))
                            @@ OptMap("urls", Opt("web_routers", routers)))
        @@ OptMap("log", OptMap("appenders", Opt("file", appender))))

UserSettings ==
    {UserTree(tz, port, methods, routers, appender) :
        tz \in UserTimezones, port \in UserPorts, methods \in UserMethods,
        routers \in UserRouters, appender \in UserAppenders}

P_Timezone == <<"timezone">>

P_Port == <<"server", "http", "port">>

P_Methods == <<"server", "cors", "methods">>

P_Routers == <<"server", "urls", "web_routers">>

P_Appenders == <<"log", "appenders">>

P_ConsoleType == <<"log", "appenders", "console", "type">>

P_Missing == <<"server", "http", "host">>

GetKeys == {P_Timezone, P_Port, P_Methods, P_Routers, P_Appenders, P_ConsoleType, P_Missing}

Fallbacks == {Undefined, Leaf("fallback")}

WritePaths == {P_Timezone, P_Port, P_ConsoleType}

WriteValue == Leaf("changed")

(***************************************************************************)
(* Specification of the configuration module: loading (the module's own    *)
(* evaluation), then reads and attempted writes by its callers.            *)
(***************************************************************************)
InitConfig ==
    /\ cfg = Some(DEFAULTS)
    /\ cfgUser \in {Some(u) : u \in UserSettings}
    /\ cfgLoaded = None
    /\ cfgGot = None
    /\ EnvIdle /\ RoleIdle /\ ParseIdle /\ MountIdle

SetConfiguration ==
    /\ cfgLoaded = None
    /\ cfg' = Some(_setConfiguration(cfgUser[1]))
    /\ cfgLoaded' = cfg'
    /\ UNCHANGED <<cfgUser, cfgGot, envVars, roleVars, parseVars, mountVars>>

Get ==
    /\ cfgLoaded # None
    /\ \E key \in {None} \cup {Some(path) : path \in GetKeys}, fallback \in Fallbacks :
        cfgGot' = Some(_getConfiguration(cfg[1], key, fallback))
    /\ UNCHANGED <<cfg, cfgUser, cfgLoaded, envVars, roleVars, parseVars, mountVars>>

\* a caller assigns into the tree it got from get()
Write ==
    /\ cfgLoaded # None
    /\ \E path \in WritePaths : cfg' = Some(Assign(cfg[1], path, WriteValue))
    /\ UNCHANGED <<cfgUser, cfgLoaded, cfgGot, envVars, roleVars, parseVars, mountVars>>

NextConfig == SetConfiguration \/ Get \/ Write

SpecConfig == InitConfig /\ [][NextConfig]_vars

(***************************************************************************)
(* Claims about the configuration module.                                  *)
(***************************************************************************)
GetNow(tree, path) == _getConfiguration(tree, Some(path), Undefined).value

\* C13: after initialization the configuration tree is deeply immutable: no
\* write to the tree that get() returned, at the top level or below it,
\* changes what a later get() of the same key returns, i.e. every key keeps
\* the value it had when initialization finished.
C13_DeeplyImmutable ==
    cfgLoaded # None =>
        \A path \in GetKeys : GetNow(cfg[1], path) = GetNow(cfgLoaded[1], path)

IsKind(node, kind) == node.k = kind

Overrides(path, kind) == IsKind(GetPath(cfgUser[1], path), kind)

LeafPaths == {P_Timezone, P_Port}

ArrayPaths == {P_Methods, P_Routers}

MapPaths == {<<>>, <<"server">>, <<"server", "http">>, <<"server", "cors">>,
             <<"server", "urls">>, <<"log">>, P_Appenders}

KeysAt(tree, path) == DOMAIN MapOf(GetPath(tree, path))

\* C14: in the merged configuration an override leaf replaces the default
\* leaf, the keys of the maps at equal depth are unioned, and an array of the
\* override replaces the default array wholesale: the merged array equals
\* the override array.
C14_ArraysWholesale ==
    cfgLoaded # None =>
        /\ \A path \in LeafPaths :
            Overrides(path, "leaf") =>
                GetPath(cfgLoaded[1], path) = GetPath(cfgUser[1], path)
        /\ \A path \in MapPaths :
            KeysAt(DEFAULTS, path) \cup KeysAt(cfgUser[1], path)
                \subseteq KeysAt(cfgLoaded[1], path)
        /\ \A path \in ArrayPaths :
            Overrides(path, "arr") =>
                GetPath(cfgLoaded[1], path) = GetPath(cfgUser[1], path)

\* C15: get(key, fallback) of a key that resolves to undefined in the tree
\* returns the fallback and logs a warning, whatever the fallback (supplied
\* or not); get() without a key returns the whole tree.
C15_FallbackWarns ==
    [][cfgGot' # cfgGot =>
        /\ (cfgGot'[1].key # None /\ GetPath(cfg[1], cfgGot'[1].key[1]) = Undefined) =>
            /\ cfgGot'[1].value = cfgGot'[1].fallback
            /\ cfgGot'[1].warned
        /\ cfgGot'[1].key = None => cfgGot'[1].value = cfg[1]]_vars

(***************************************************************************)
(* app.js, startup: the route table is mounted on the application.  A      *)
(* layer is one app.use: the path it is mounted on (None: every path), the *)
(* middleware, and for a module's router the file and the kind it was set  *)
(* up with.                                                                *)
(***************************************************************************)
AUTH_BY_TOKEN_ONLY == "TOKEN"

NO_CSRF == "API"

WITH_CSRF == "CSRF"

RouterType == {AUTH_BY_TOKEN_ONLY, NO_CSRF, WITH_CSRF}

Layer(path, mw) == [path |-> path, mw |-> mw, file |-> None, kind |-> None]

RouterLayer(path, file, kind) ==
    [path |-> path, mw |-> "router", file |-> file, kind |-> Some(kind)]

\* the four app.use calls of one route, misordered: success stage before the router
RouteLayersSuccessFirst(route, routeType) ==
    <<Layer(route.path, "loggerMiddlewareRequests"),
      Layer(route.path, "loggerMiddlewareResponses"),
      Layer(route.path, "_genericSuccessMiddleware"),
      RouterLayer(route.path, route.file, routeType)>>

\* the four app.use calls of one route
RouteLayers(route, routeType) ==
    <<Layer(route.path, "loggerMiddlewareRequests"),
      Layer(route.path, "loggerMiddlewareResponses"),
      RouterLayer(route.path, route.file, routeType),
      Layer(route.path, "_genericSuccessMiddleware")>>

\* route.file && route.path
HasFileAndPath(route) == route.file # None /\ route.path # None

RECURSIVE _setupMiddlewareRouters(_, _, _)
_setupMiddlewareRouters(layers, list, routeType) ==
    IF list = <<>> THEN layers
    ELSE _setupMiddlewareRouters(
            IF HasFileAndPath(Head(list))
            THEN layers \o RouteLayers(Head(list), routeType) ELSE layers,
            Tail(list), routeType)

_setupApiHandler(layers) == Append(layers, Layer(None, "_genericErrorMiddleware"))

\* web_routers.filter(...) of the two calls at startup
IsNoCsrf(route) == ~route.csrf /\ ~route.token

IsWithCsrf(route) == route.csrf /\ ~route.token

RECURSIVE FilterNoCsrf(_)
FilterNoCsrf(list) ==
    IF list = <<>> THEN <<>>
    ELSE (IF IsNoCsrf(Head(list)) THEN <<Head(list)>> ELSE <<>>) \o FilterNoCsrf(Tail(list))

RECURSIVE FilterWithCsrf(_)
FilterWithCsrf(list) ==
    IF list = <<>> THEN <<>>
    ELSE (IF IsWithCsrf(Head(list)) THEN <<Head(list)>> ELSE <<>>) \o FilterWithCsrf(Tail(list))

\* the entries a route table can hold
RoutePaths == {None, Some("/role"), Some("/user")}

RouteFiles == {None, Some("./src/data/role/role-router")}

RouteEntries ==
    [csrf : BOOLEAN, token : BOOLEAN, path : RoutePaths, file : RouteFiles]

RouteTables == UNION {[1..n -> RouteEntries] : n \in 0..MaxRoutes}

(***************************************************************************)
(* Specification of startup: the two mount calls, then the error stage.    *)
(***************************************************************************)
InitMount ==
    /\ routes \in RouteTables
    /\ app = <<>>
    /\ mountPc = "start"
    /\ EnvIdle /\ RoleIdle /\ ParseIdle /\ ConfIdle

MountNoCsrf ==
    /\ mountPc = "start"
    /\ app' = _setupMiddlewareRouters(app, FilterNoCsrf(routes), NO_CSRF)
    /\ mountPc' = "nocsrf"
    /\ UNCHANGED <<routes, envVars, roleVars, parseVars, confVars>>

MountWithCsrf ==
    /\ mountPc = "nocsrf"
    /\ app' = _setupMiddlewareRouters(app, FilterWithCsrf(routes), WITH_CSRF)
    /\ mountPc' = "csrf"
    /\ UNCHANGED <<routes, envVars, roleVars, parseVars, confVars>>

SetupApiHandler ==
    /\ mountPc = "csrf"
    /\ app' = _setupApiHandler(app)
    /\ mountPc' = "done"
    /\ UNCHANGED <<routes, envVars, roleVars, parseVars, confVars>>

NextMount == MountNoCsrf \/ MountWithCsrf \/ SetupApiHandler

SpecMount == InitMount /\ [][NextMount]_vars

(***************************************************************************)
(* Claims about startup.                                                   *)
(***************************************************************************)
\* the kind the (csrf, token) flags of an entry select
KindOf(route) ==
    IF route.token THEN AUTH_BY_TOKEN_ONLY
    ELSE IF route.csrf THEN WITH_CSRF ELSE NO_CSRF

RouterLayers == {l \in 1..Len(app) : app[l].mw = "router"}

WithFileAndPath == {i \in 1..Len(routes) : HasFileAndPath(routes[i])}

\* C16: at startup the route table is partitioned by (csrf, token) into the
\* three router kinds and mounted once per kind, so when startup is done
\* every entry that has both file and path is mounted under exactly one
\* kind, the one its flags select, and none is left unmounted.
C16_AllMounted ==
    mountPc = "done" =>
        /\ \A i \in WithFileAndPath : \E l \in RouterLayers :
            app[l] = RouterLayer(routes[i].path, routes[i].file, KindOf(routes[i]))
        /\ Cardinality(RouterLayers) = Cardinality(WithFileAndPath)

\* the kinds whose mount call has returned
KindsRequested ==
    CASE mountPc = "start" -> {}
      [] mountPc = "nocsrf" -> {NO_CSRF}
      [] OTHER -> {NO_CSRF, WITH_CSRF}

OfKind(route, kind) ==
    \/ kind = NO_CSRF /\ ~route.csrf /\ ~route.token
    \/ kind = WITH_CSRF /\ route.csrf /\ ~route.token

Mountable(kind) == {j \in 1..Len(routes) : OfKind(routes[j], kind) /\ HasFileAndPath(routes[j])}

RoutersOf(kind) == {i \in 1..Len(app) : app[i].mw = "router" /\ app[i].kind = Some(kind)}

IsBlockAt(i) ==
    /\ i >= 1 /\ i + 3 <= Len(app)
    /\ app[i].path # None
    /\ app[i] = Layer(app[i].path, "loggerMiddlewareRequests")
    /\ app[i + 1] = Layer(app[i].path, "loggerMiddlewareResponses")
    /\ app[i + 2].mw = "router" /\ app[i + 2].path = app[i].path
    /\ app[i + 3] = Layer(app[i].path, "_genericSuccessMiddleware")
    /\ \E kind \in KindsRequested : \E j \in Mountable(kind) :
        app[i + 2] = RouterLayer(routes[j].path, routes[j].file, kind)

IsErrorStage(layer) == layer.mw = "_genericErrorMiddleware"

\* C19: each entry of the requested kind that has both file and path gets,
\* on its path and in this order, the request logger, the response logger,
\* the module's setup(kind) router and the success stage; an entry missing
\* file or path installs nothing; the error stage is installed only after
\* all route groups.
C19_MountOrder ==
    /\ \A i \in 1..Len(app) :
        \/ IsErrorStage(app[i]) /\ i = Len(app) /\ mountPc = "done"
        \/ \E b \in {i - 3, i - 2, i - 1, i} : IsBlockAt(b)
    /\ \A kind \in KindsRequested :
        /\ Cardinality(RoutersOf(kind)) = Cardinality(Mountable(kind))
        /\ \A j \in Mountable(kind) : \E i \in RoutersOf(kind) :
            app[i] = RouterLayer(routes[j].path, routes[j].file, kind)
        /\ \A i1, i2 \in RoutersOf(kind) : \A i3 \in RoutersOf(WITH_CSRF) :
            kind = NO_CSRF => i1 < i3
    /\ mountPc = "done" => Len(app) >= 1 /\ IsErrorStage(app[Len(app)])

\* startup is done for a table with a mounted entry followed by one that
\* lacks its path
C19_Witness ==
    /\ mountPc = "done"
    /\ Len(routes) = 2
    /\ HasFileAndPath(routes[1]) /\ IsWithCsrf(routes[1])
    /\ routes[2].path = None /\ routes[2].file # None /\ IsNoCsrf(routes[2])
    /\ Len(app) = 5
    /\ IsBlockAt(1)

====
